---- MODULE Spec2Model ----
(***************************************************************************)
(* A model of TaskA/SensorMonitor.py: the main thread (construction, the   *)
(* sampling loop of run, cleanup and main's exception handlers), the       *)
(* daemon display thread (_display_loop), the joystick dispatcher thread   *)
(* that calls _on_middle_pressed, and the interrupt signal.                *)
(*                                                                         *)
(* Numbers: sensor values are integers in hundredths of a unit; values    *)
(* rounded by round(x, 1) are integers in tenths of a unit.  Configuration *)
(* bounds are in tenths.                                                   *)
(***************************************************************************)
EXTENDS Integers, Sequences, FiniteSets, TLC

(* ------------------------------------------------------------------ *)
(* Bounds of the model                                                  *)
(* ------------------------------------------------------------------ *)

\* sampling ticks that read the sensors
MaxTicks == 2

\* pressed events delivered to the callback
MaxPresses == 2

\* messages the display loop renders
MaxRenders == 5

\* the largest reading and bound (tenths) the classification is applied to
MaxValue == 2

\* ranges of a configuration document that differ from the valid document
MaxBadRanges == 2

(* ------------------------------------------------------------------ *)
(* Program constants                                                    *)
(* ------------------------------------------------------------------ *)

\* meta.get("temperature_calibration_offset", -1.5), in tenths
DefaultTempOffset == -15

\* the names bound by the module's import statements (lines 2-4)
Imports == {"json", "sqlite3", "time", "threading", "datetime", "SenseHat", "ACTION_PRESSED"}

ACTION_PRESSED == "pressed"

EnvNames == {"temperature", "humidity", "pressure"}

AxisNames == {"pitch", "roll", "yaw"}

RangeNames == EnvNames \cup AxisNames

modes == <<"temperature", "humidity", "pressure", "orientation">>

(* ------------------------------------------------------------------ *)
(* JSON values and Python's comparison of them                          *)
(* ------------------------------------------------------------------ *)

\* A JSON scalar as json.load returns it: <<type, n>>.  For "num" n is the
\* number in tenths; for "str" n is the rank of the string in lexicographic
\* order; "null" is None.
Num(n) == <<"num", n>>

Str(n) == <<"str", n>>

Null == <<"null", 0>>

\* isinstance(v, (int, float))
IsNumber(v) == v[1] = "num"

\* Python's a >= b: "TypeError" when the operands are not ordered
\* (None with anything, str with a number), else the truth value.
PyGe(a, b) ==
    IF a[1] = "null" \/ b[1] = "null" \/ a[1] # b[1]
    THEN "TypeError"
    ELSE IF a[2] >= b[2] THEN "true" ELSE "false"

\* Python's a <= b, same convention
PyLe(a, b) == PyGe(b, a)

\* Python's a < b
PyLt(a, b) ==
    IF PyGe(a, b) = "TypeError" THEN "TypeError"
    ELSE IF PyGe(a, b) = "true" THEN "false" ELSE "true"

\* Python's a > b
PyGt(a, b) == PyLt(b, a)

(* ------------------------------------------------------------------ *)
(* Configuration documents                                              *)
(* ------------------------------------------------------------------ *)

\* A range object {"min": lo, "max": hi}
Rng(lo, hi) == [min |-> lo, max |-> hi]

\* The document of the specification's scenario:
\* temperature 18..26, humidity 30..60, pressure 990..1020,
\* pitch and roll -10..10, yaw -180..180 (in tenths).
ValidDoc ==
    [temperature |-> Rng(Num(180), Num(260)),
     humidity    |-> Rng(Num(300), Num(600)),
     pressure    |-> Rng(Num(9900), Num(10200)),
     orientation |-> [pitch |-> Rng(Num(-100), Num(100)),
                      roll  |-> Rng(Num(-100), Num(100)),
                      yaw   |-> Rng(Num(-1800), Num(1800))]]

\* the key k is present in the object d ("k in d")
Has(d, k) == k \in DOMAIN d

\* the object d without its key k
Without(d, k) == [x \in (DOMAIN d) \ {k} |-> d[x]]

\* the object d with d[k] = v
With(d, k, v) == [x \in (DOMAIN d) \cup {k} |-> IF x = k THEN v ELSE d[x]]

\* the scalars a bound may hold in a document under test
BoundValues == {Num(10), Num(20), Str(1), Str(2)}

\* the range objects under test: every pair of scalars, a null bound, and
\* objects without max, without min and without both
RangeObjects ==
    {Rng(lo, hi) : lo \in BoundValues, hi \in BoundValues}
    \cup {Rng(Null, Num(20)), [min |-> Num(10)], [max |-> Num(20)], [other |-> Null]}

\* what a range of a document under test is: no such key, or an object
RangeChoices ==
    {[present |-> FALSE, obj |-> [other |-> Null]]}
    \cup {[present |-> TRUE, obj |-> o] : o \in RangeObjects}

\* the document doc with range name set to choice ch
SetRange(doc, name, ch) ==
    IF name \in EnvNames
    THEN IF ch.present THEN With(doc, name, ch.obj) ELSE Without(doc, name)
    ELSE IF ~Has(doc, "orientation") THEN doc
         ELSE With(doc, "orientation",
                   IF ch.present THEN With(doc.orientation, name, ch.obj)
                   ELSE Without(doc.orientation, name))

RECURSIVE SetRanges(_, _, _)
\* the document doc with every range of the set names set by the function f
SetRanges(doc, names, f) ==
    IF names = {} THEN doc
    ELSE LET n == CHOOSE x \in names : TRUE
         IN  SetRanges(SetRange(doc, n, f[n]), names \ {n}, f)

\* a configuration file: unreadable or malformed (readable = FALSE), or a document
ConfigFile(ok, d) == [readable |-> ok, doc |-> d]

(* ------------------------------------------------------------------ *)
(* _load_and_validate_config                                            *)
(* ------------------------------------------------------------------ *)

\* check_env_range(name): "ConfigError" or "ok"
check_env_range(cfg, name) ==
    IF ~Has(cfg, name) \/ ~(Has(cfg[name], "min") /\ Has(cfg[name], "max"))
    THEN "ConfigError"
    ELSE LET lo == cfg[name].min
             hi == cfg[name].max
         IN  IF ~IsNumber(lo) \/ ~IsNumber(hi) \/ PyGe(lo, hi) = "true"
             THEN "ConfigError"
             ELSE "ok"

\* the check of one orientation axis (lines 73-75): no isinstance test, so
\* ax["min"] >= ax["max"] is Python's comparison of whatever the bounds are
check_axis(cfg, axis) ==
    LET ax == cfg.orientation[axis]
    IN  IF ~(Has(ax, "min") /\ Has(ax, "max")) THEN "ConfigError"
        ELSE IF PyGe(ax.min, ax.max) = "TypeError" THEN "TypeError"
        ELSE IF PyGe(ax.min, ax.max) = "true" THEN "ConfigError"
        ELSE "ok"

\* the first outcome that is not "ok" of a sequence of checks, else "ok"
FirstFailure(outcomes) ==
    IF \E i \in 1..Len(outcomes) : outcomes[i] # "ok"
    THEN outcomes[CHOOSE i \in 1..Len(outcomes) :
                    /\ outcomes[i] # "ok"
                    /\ \A j \in 1..(i-1) : outcomes[j] = "ok"]
    ELSE "ok"

\* _load_and_validate_config(path): "ok" when it returns cfg, else the
\* exception it raises
load_and_validate_config(f) ==
    IF ~f.readable THEN "ConfigError"
    ELSE LET cfg == f.doc IN
         IF \E key \in {"temperature", "humidity", "pressure", "orientation"} : ~Has(cfg, key)
         THEN "ConfigError"
         ELSE LET env == FirstFailure(<<check_env_range(cfg, "temperature"),
                                        check_env_range(cfg, "humidity"),
                                        check_env_range(cfg, "pressure")>>)
              IN  IF env # "ok" THEN env
                  ELSE IF \E a \in AxisNames : ~Has(cfg.orientation, a) THEN "ConfigError"
                  ELSE FirstFailure(<<check_axis(cfg, "pitch"),
                                      check_axis(cfg, "roll"),
                                      check_axis(cfg, "yaw")>>)

(* ------------------------------------------------------------------ *)
(* Sensors and classification                                           *)
(* ------------------------------------------------------------------ *)

\* round(x, 1) of x given in hundredths: the nearest tenth, a tie going to
\* the even tenth
Round1(h) ==
    LET q == h \div 10
        r == h % 10
    IN  IF r < 5 THEN q
        ELSE IF r > 5 THEN q + 1
        ELSE IF q % 2 = 0 THEN q ELSE q + 1

\* what the sensors return, tick after tick (hundredths): the scenario of
\* the specification (27.3 degrees before the offset, humidity 65.0, pitch
\* 15), then a cold, level reading; the two repeat in turn
SensorTrace ==
    <<[temperature |-> 2730, humidity |-> 6500, pressure |-> 100012,
       pitch |-> 1500, roll |-> 0, yaw |-> 0],
      [temperature |-> 1894, humidity |-> 4507, pressure |-> 98960,
       pitch |-> -996, roll |-> 1000, yaw |-> 17998]>>

\* what the sensors return in tick t
sensor_at(t) == SensorTrace[((t - 1) % Len(SensorTrace)) + 1]

\* _read_sensors given what the sensors return; tick tags the reading with
\* the sampling tick that built it
read_sensors(raw, temp_offset, t) ==
    [tick        |-> t,
     temperature |-> Round1(raw.temperature + 10 * temp_offset),
     humidity    |-> Round1(raw.humidity),
     pressure    |-> Round1(raw.pressure),
     pitch       |-> Round1(raw.pitch),
     roll        |-> Round1(raw.roll),
     yaw         |-> Round1(raw.yaw)]

\* _bucket with the bounds excluded: v <= lo is Low, v >= hi is High
bucket_strict(v, lo, hi) ==
    IF PyLe(Num(v), lo) = "true" THEN "Low"
    ELSE IF PyGe(Num(v), hi) = "true" THEN "High"
    ELSE "Comfortable"

\* _bucket(v, lo, hi)
bucket(v, lo, hi) ==
    IF PyLt(Num(v), lo) = "true" THEN "Low"
    ELSE IF PyGt(Num(v), hi) = "true" THEN "High"
    ELSE "Comfortable"

\* the first outcome that is not "true" of a chain of comparisons joined
\* by "and", else "true"
AndChain(outcomes) ==
    IF \E i \in 1..Len(outcomes) : outcomes[i] # "true"
    THEN outcomes[CHOOSE i \in 1..Len(outcomes) :
                    /\ outcomes[i] # "true"
                    /\ \A j \in 1..(i-1) : outcomes[j] = "true"]
    ELSE "true"

\* "aligned" with yaw left out of the chain
aligned_without_yaw(r, cfg) ==
    LET o == cfg.orientation
    IN  AndChain(<<PyLe(o.pitch.min, Num(r.pitch)), PyLe(Num(r.pitch), o.pitch.max),
                   PyLe(o.roll.min,  Num(r.roll)),  PyLe(Num(r.roll),  o.roll.max)>>)

\* the expression "aligned" of _classify (lines 131-135): "true", "false",
\* or "TypeError" when a comparison that is evaluated raises
aligned(r, cfg) ==
    LET o == cfg.orientation
    IN  AndChain(<<PyLe(o.pitch.min, Num(r.pitch)), PyLe(Num(r.pitch), o.pitch.max),
                   PyLe(o.roll.min,  Num(r.roll)),  PyLe(Num(r.roll),  o.roll.max),
                   PyLe(o.yaw.min,   Num(r.yaw)),   PyLe(Num(r.yaw),   o.yaw.max)>>)

\* _classify(r) when it returns; the labels carry the tick of the reading
classify(r, cfg) ==
    [tick        |-> r.tick,
     temperature |-> bucket(r.temperature, cfg.temperature.min, cfg.temperature.max),
     humidity    |-> bucket(r.humidity, cfg.humidity.min, cfg.humidity.max),
     pressure    |-> bucket(r.pressure, cfg.pressure.min, cfg.pressure.max),
     orientation |-> IF aligned(r, cfg) = "true" THEN "Aligned" ELSE "Tilted"]

\* The older script, src/SensorMonitor.py.  Its three functions read the
\* bounds from module globals taken from the document as loaded; here the
\* globals are parameters.
\* classify_temperature(temp), lines 44-50
classify_temperature(temp, min_temp, max_temp) ==
    IF PyLt(Num(temp), min_temp) = "true" THEN "Low"
    ELSE IF AndChain(<<PyLe(min_temp, Num(temp)), PyLe(Num(temp), max_temp)>>) = "true"
         THEN "Comfortable"
    ELSE "High"

\* classify_humidity(humidity), lines 53-59
classify_humidity(humidity, min_humidity, max_humidity) ==
    IF PyLt(Num(humidity), min_humidity) = "true" THEN "Low"
    ELSE IF AndChain(<<PyLe(min_humidity, Num(humidity)), PyLe(Num(humidity), max_humidity)>>) = "true"
         THEN "Comfortable"
    ELSE "High"

\* classify_pressure(pressure), lines 62-68
classify_pressure(pressure, min_pressure, max_pressure) ==
    IF PyLt(Num(pressure), min_pressure) = "true" THEN "Low"
    ELSE IF AndChain(<<PyLe(min_pressure, Num(pressure)), PyLe(Num(pressure), max_pressure)>>) = "true"
         THEN "Comfortable"
    ELSE "High"

\* sys.exit(code) in main: with sys bound it ends the process with that
\* status; with sys unbound the call raises NameError inside the handler,
\* which nothing catches, and the interpreter ends with status 1
SysExit(code) == IF "sys" \in Imports THEN code ELSE 1

(* ------------------------------------------------------------------ *)
(* State                                                                *)
(* ------------------------------------------------------------------ *)

VARIABLES
    file,            \* the configuration file on disk
    table,           \* the store holds the table sensor_logs
    sensor_logs,     \* the rows of sensor_logs, in id order
    mpc,             \* main thread: where it is
    exc,             \* main thread: the exception raised, "none" if none
    exitCode,        \* the process's exit status, -1 while it runs
    cleanupFrom,     \* which call of cleanup runs: "finally" (run) or "handler" (main)
    m_r,             \* run's local r
    m_c,             \* run's local c
    tick,            \* calls of _read_sensors so far
    config,          \* self.config: <<>> before it is loaded, <<cfg>> after
    paused,          \* self.paused
    latest,          \* self._latest: <<>> is None, <<r>> a reading
    latest_classes,  \* self._latest_classes: <<>> is None, <<c>> the labels
    conn,            \* self.conn: "none", "open", "closed"
    callback,        \* sense.stick.direction_middle is _on_middle_pressed
    stop,            \* self._stop is set
    dpc,             \* display thread: where it is
    idx,             \* _display_loop's local idx
    d_c,             \* _display_loop's local c, with the tick it was read from
    d_r,             \* _display_loop's local r
    ipc,             \* joystick thread: where it is
    presses,         \* pressed events delivered to the callback so far
    screen,          \* the LED matrix: who wrote it last, and what
    cleared,         \* cleanup has called sense.clear()
    rendered,        \* history: the prefixes of the messages _display_loop has shown, in order
    published,       \* history: completed executions of line 194
    paused_appends,  \* history: rows _log has appended since paused last became true
    legacy           \* the labels of the older script (src/SensorMonitor.py), "none" before it classifies

storeVars == <<file, table, sensor_logs>>

mainVars == <<mpc, exc, exitCode, cleanupFrom, m_r, m_c, tick>>

selfVars == <<config, paused, latest, latest_classes, conn, callback, stop>>

displayVars == <<dpc, idx, d_c, d_r>>

inputVars == <<ipc, presses>>

hatVars == <<screen, cleared>>

historyVars == <<rendered, published, paused_appends>>

vars == <<storeVars, mainVars, selfVars, displayVars, inputVars, hatVars, historyVars, legacy>>

\* a reading before any was built
NoReading ==
    [tick |-> 0, temperature |-> 0, humidity |-> 0, pressure |-> 0,
     pitch |-> 0, roll |-> 0, yaw |-> 0]

\* the pcs of the main thread inside run's while loop
RunPcs == {"run_check", "run_if", "run_read", "run_classify", "run_pub_r",
           "run_pub_c", "run_log", "run_sleep"}

\* the pcs of the display thread while it runs
DisplayLive == {"d_check", "d_cond", "d_read_c", "d_read_r", "d_show", "d_in_show", "d_sleep"}

\* the configuration files the monitor is started with
StartFiles ==
    {ConfigFile(TRUE, ValidDoc),
     ConfigFile(FALSE, ValidDoc),
     ConfigFile(TRUE, Without(ValidDoc, "humidity")),
     ConfigFile(TRUE, With(ValidDoc, "temperature", Rng(Num(260), Num(180)))),
     ConfigFile(TRUE, SetRange(ValidDoc, "pitch", [present |-> TRUE, obj |-> Rng(Str(1), Str(2))])),
     ConfigFile(TRUE, SetRange(ValidDoc, "roll", [present |-> TRUE, obj |-> Rng(Num(-100), Str(2))]))}

\* the state of the process as main is entered, the store aside
InitProcess ==
    /\ mpc = "main"
    /\ exc = "none"
    /\ exitCode = -1
    /\ cleanupFrom = "none"
    /\ m_r = NoReading
    /\ m_c = classify(NoReading, ValidDoc)
    /\ tick = 0
    /\ config = <<>>
    /\ paused = FALSE
    /\ latest = <<>>
    /\ latest_classes = <<>>
    /\ conn = "none"
    /\ callback = FALSE
    /\ stop = FALSE
    /\ dpc = "unstarted"
    /\ idx = 0
    /\ d_c = [tick |-> 0, label |-> "none"]
    /\ d_r = NoReading
    /\ ipc = "idle"
    /\ presses = 0
    /\ screen = [by |-> "none", text |-> <<"none">>, colour |-> "none"]
    /\ cleared = FALSE
    /\ rendered = <<>>
    /\ published = 0
    /\ paused_appends = 0
    /\ legacy = [temperature |-> "none", humidity |-> "none", pressure |-> "none"]

\* the monitor is started on a store that holds no table yet
Init ==
    /\ file \in StartFiles
    /\ table = FALSE
    /\ sensor_logs = <<>>
    /\ InitProcess

(* ------------------------------------------------------------------ *)
(* Main thread: main and SensorMonitor.__init__                         *)
(* ------------------------------------------------------------------ *)

\* main enters SensorMonitor(); line 21, SenseHat(), which raises when the
\* board is not there
M_SenseHat ==
    /\ mpc = "main"
    /\ \/ /\ mpc' = "load_config"
          /\ exc' = exc
       \/ /\ mpc' = "except"
          /\ exc' = "OSError"
    /\ UNCHANGED <<exitCode, cleanupFrom, m_r, m_c, tick>>
    /\ UNCHANGED <<storeVars, selfVars, displayVars, inputVars, hatVars>>
    /\ UNCHANGED <<historyVars, legacy>>

\* M_LoadConfig with the exception of a failed validation swallowed:
\* construction goes on without a configuration
M_LoadConfig_swallow ==
    /\ mpc = "load_config"
    /\ LET res == load_and_validate_config(file)
       IN  /\ config' = IF res = "ok" THEN <<file.doc>> ELSE config
           /\ mpc' = "init_state"
           /\ exc' = IF res = "ok" THEN exc ELSE res
    /\ UNCHANGED <<exitCode, cleanupFrom, m_r, m_c, tick>>
    /\ UNCHANGED <<paused, latest, latest_classes, conn, callback, stop>>
    /\ UNCHANGED <<storeVars, displayVars, inputVars, hatVars>>
    /\ UNCHANGED <<historyVars, legacy>>

\* line 24: self.config = self._load_and_validate_config(config_path)
M_LoadConfig ==
    /\ mpc = "load_config"
    /\ LET res == load_and_validate_config(file)
       IN  IF res = "ok"
           THEN /\ config' = <<file.doc>>
                /\ mpc' = "init_state"
                /\ exc' = exc
           ELSE /\ config' = config
                /\ mpc' = "except"
                /\ exc' = res
    /\ UNCHANGED <<exitCode, cleanupFrom, m_r, m_c, tick>>
    /\ UNCHANGED <<paused, latest, latest_classes, conn, callback, stop>>
    /\ UNCHANGED <<storeVars, displayVars, inputVars, hatVars>>
    /\ UNCHANGED <<historyVars, legacy>>

\* lines 25-32: the tunables, paused, _latest, _latest_classes
M_InitState ==
    /\ mpc = "init_state"
    /\ paused' = FALSE
    /\ latest' = <<>>
    /\ latest_classes' = <<>>
    /\ mpc' = "connect"
    /\ UNCHANGED <<exc, exitCode, cleanupFrom, m_r, m_c, tick>>
    /\ UNCHANGED <<config, conn, callback, stop>>
    /\ UNCHANGED <<storeVars, displayVars, inputVars, hatVars>>
    /\ UNCHANGED <<historyVars, legacy>>

\* _init_db as DROP TABLE and CREATE TABLE: the table is emptied
init_db_recreate(exists, rows) == <<>>

\* _init_db: CREATE TABLE IF NOT EXISTS sensor_logs, commit: the rows of the
\* table afterwards
init_db(exists, rows) == IF exists THEN rows ELSE <<>>

\* lines 35-36: sqlite3.connect and _init_db, or the error connect raises
M_Connect ==
    /\ mpc = "connect"
    /\ \/ /\ conn' = "open"
          /\ table' = TRUE
          /\ sensor_logs' = init_db(table, sensor_logs)
          /\ mpc' = "register"
          /\ exc' = exc
       \/ /\ mpc' = "except"
          /\ exc' = "sqlite3.OperationalError"
          /\ UNCHANGED <<conn, table, sensor_logs>>
    /\ UNCHANGED <<exitCode, cleanupFrom, m_r, m_c, tick>>
    /\ UNCHANGED <<config, paused, latest, latest_classes, callback, stop>>
    /\ UNCHANGED <<file, displayVars, inputVars, hatVars>>
    /\ UNCHANGED <<historyVars, legacy>>

\* line 39: the joystick callback is registered
M_Register ==
    /\ mpc = "register"
    /\ callback' = TRUE
    /\ mpc' = "start_display"
    /\ UNCHANGED <<exc, exitCode, cleanupFrom, m_r, m_c, tick>>
    /\ UNCHANGED <<config, paused, latest, latest_classes, conn, stop>>
    /\ UNCHANGED <<storeVars, displayVars, inputVars, hatVars>>
    /\ UNCHANGED <<historyVars, legacy>>

\* lines 42-44: the stop event is created and the display thread started;
\* __init__ returns and main calls monitor.run()
M_StartDisplay ==
    /\ mpc = "start_display"
    /\ stop' = FALSE
    /\ dpc' = "d_check"
    /\ mpc' = "run_check"
    /\ UNCHANGED <<exc, exitCode, cleanupFrom, m_r, m_c, tick>>
    /\ UNCHANGED <<config, paused, latest, latest_classes, conn, callback>>
    /\ UNCHANGED <<idx, d_c, d_r>>
    /\ UNCHANGED <<storeVars, inputVars, hatVars>>
    /\ UNCHANGED <<historyVars, legacy>>

\* the status main's handlers of lines 219-224 end the process with
startup_status(e) == IF e = "ConfigError" THEN SysExit(2) ELSE SysExit(1)

\* lines 219-224: construction raised; the handler prints and exits
M_Except ==
    /\ mpc = "except"
    /\ exitCode' = startup_status(exc)
    /\ mpc' = "terminated"
    /\ UNCHANGED <<exc, cleanupFrom, m_r, m_c, tick>>
    /\ UNCHANGED <<storeVars, selfVars, displayVars, inputVars, hatVars>>
    /\ UNCHANGED <<historyVars, legacy>>

(* ------------------------------------------------------------------ *)
(* Main thread: run                                                     *)
(* ------------------------------------------------------------------ *)

\* an exception leaves run's try block: the finally clause calls cleanup
Raise(e) ==
    /\ exc' = e
    /\ cleanupFrom' = "finally"
    /\ mpc' = "cl_stop"

\* line 190: while not self._stop.is_set()
R_Check ==
    /\ mpc = "run_check"
    /\ stop \/ tick < MaxTicks
    /\ IF stop
       THEN /\ cleanupFrom' = "finally"
            /\ mpc' = "cl_stop"
       ELSE /\ cleanupFrom' = cleanupFrom
            /\ mpc' = "run_if"
    /\ UNCHANGED <<exc, exitCode, m_r, m_c, tick>>
    /\ UNCHANGED <<storeVars, selfVars, displayVars, inputVars, hatVars>>
    /\ UNCHANGED <<historyVars, legacy>>

\* R_IfPaused with the test left out: every iteration samples
R_IfPaused_never ==
    /\ mpc = "run_if"
    /\ mpc' = "run_read"
    /\ UNCHANGED <<exc, exitCode, cleanupFrom, m_r, m_c, tick>>
    /\ UNCHANGED <<storeVars, selfVars, displayVars, inputVars, hatVars>>
    /\ UNCHANGED <<historyVars, legacy>>

\* R_IfPaused with the test inverted: if self.paused
R_IfPaused_inverted ==
    /\ mpc = "run_if"
    /\ mpc' = IF paused THEN "run_read" ELSE "run_sleep"
    /\ UNCHANGED <<exc, exitCode, cleanupFrom, m_r, m_c, tick>>
    /\ UNCHANGED <<storeVars, selfVars, displayVars, inputVars, hatVars>>
    /\ UNCHANGED <<historyVars, legacy>>

\* line 191: if not self.paused
R_IfPaused ==
    /\ mpc = "run_if"
    /\ mpc' = IF ~paused THEN "run_read" ELSE "run_sleep"
    /\ UNCHANGED <<exc, exitCode, cleanupFrom, m_r, m_c, tick>>
    /\ UNCHANGED <<storeVars, selfVars, displayVars, inputVars, hatVars>>
    /\ UNCHANGED <<historyVars, legacy>>

\* R_Read with a failed read caught inside the loop: the tick is given up
\* and the loop goes on to its sleep
R_Read_caught ==
    /\ mpc = "run_read"
    /\ tick' = tick + 1
    /\ \/ /\ m_r' = read_sensors(sensor_at(tick + 1), DefaultTempOffset, tick + 1)
          /\ mpc' = "run_classify"
          /\ UNCHANGED <<exc, cleanupFrom>>
       \/ /\ exc' = "SensorError"
          /\ mpc' = "run_sleep"
          /\ UNCHANGED <<m_r, cleanupFrom>>
    /\ UNCHANGED <<exitCode, m_c>>
    /\ UNCHANGED <<storeVars, selfVars, displayVars, inputVars, hatVars>>
    /\ UNCHANGED <<historyVars, legacy>>

\* line 192: r = self._read_sensors(), or the error a sensor read raises
R_Read ==
    /\ mpc = "run_read"
    /\ tick' = tick + 1
    /\ \/ /\ m_r' = read_sensors(sensor_at(tick + 1), DefaultTempOffset, tick + 1)
          /\ mpc' = "run_classify"
          /\ UNCHANGED <<exc, cleanupFrom>>
       \/ /\ Raise("SensorError")
          /\ m_r' = m_r
    /\ UNCHANGED <<exitCode, m_c>>
    /\ UNCHANGED <<storeVars, selfVars, displayVars, inputVars, hatVars>>
    /\ UNCHANGED <<historyVars, legacy>>

\* line 193: c = self._classify(r); a comparison of a reading with a bound
\* that is not a number raises TypeError
R_Classify ==
    /\ mpc = "run_classify"
    /\ IF aligned(m_r, config[1]) = "TypeError"
       THEN /\ Raise("TypeError")
            /\ m_c' = m_c
       ELSE /\ m_c' = classify(m_r, config[1])
            /\ mpc' = "run_pub_r"
            /\ UNCHANGED <<exc, cleanupFrom>>
    /\ UNCHANGED <<exitCode, m_r, tick>>
    /\ UNCHANGED <<storeVars, selfVars, displayVars, inputVars, hatVars>>
    /\ UNCHANGED <<historyVars, legacy>>

\* line 194, first store of the tuple assignment: self._latest = r
R_PublishReading ==
    /\ mpc = "run_pub_r"
    /\ latest' = <<m_r>>
    /\ mpc' = "run_pub_c"
    /\ UNCHANGED <<exc, exitCode, cleanupFrom, m_r, m_c, tick>>
    /\ UNCHANGED <<config, paused, latest_classes, conn, callback, stop>>
    /\ UNCHANGED <<storeVars, displayVars, inputVars, hatVars>>
    /\ UNCHANGED <<historyVars, legacy>>

\* line 194, second store: self._latest_classes = c
R_PublishClasses ==
    /\ mpc = "run_pub_c"
    /\ latest_classes' = <<m_c>>
    /\ mpc' = "run_log"
    /\ UNCHANGED <<exc, exitCode, cleanupFrom, m_r, m_c, tick>>
    /\ UNCHANGED <<config, paused, latest, conn, callback, stop>>
    /\ UNCHANGED <<storeVars, displayVars, inputVars, hatVars>>
    /\ published' = published + 1
    /\ UNCHANGED <<rendered, paused_appends, legacy>>

\* _log that stores the labels of no reading in place of c
log_unclassified(rows, r, c) == Append(rows, [r |-> r, c |-> classify(NoReading, ValidDoc)])

\* _log(r, c) when the insert and the commit succeed: the rows afterwards
log(rows, r, c) == Append(rows, [r |-> r, c |-> c])

\* line 195: self._log(r, c), or the error the insert or the commit raises
R_Log ==
    /\ mpc = "run_log"
    /\ \/ /\ sensor_logs' = log(sensor_logs, m_r, m_c)
          /\ mpc' = "run_sleep"
          /\ UNCHANGED <<exc, cleanupFrom>>
       \/ /\ Raise("sqlite3.Error")
          /\ sensor_logs' = sensor_logs
    /\ UNCHANGED <<exitCode, m_r, m_c, tick>>
    /\ UNCHANGED <<file, table, selfVars, displayVars, inputVars, hatVars>>
    /\ paused_appends' = IF paused /\ mpc' = "run_sleep" THEN paused_appends + 1 ELSE paused_appends
    /\ UNCHANGED <<rendered, published, legacy>>

\* line 201: time.sleep(self.poll_seconds) returns
R_Sleep ==
    /\ mpc = "run_sleep"
    /\ mpc' = "run_check"
    /\ UNCHANGED <<exc, exitCode, cleanupFrom, m_r, m_c, tick>>
    /\ UNCHANGED <<storeVars, selfVars, displayVars, inputVars, hatVars>>
    /\ UNCHANGED <<historyVars, legacy>>

\* the interrupt signal: KeyboardInterrupt is raised in the main thread
\* wherever run is
Interrupt ==
    /\ mpc \in RunPcs
    /\ Raise("KeyboardInterrupt")
    /\ UNCHANGED <<exitCode, m_r, m_c, tick>>
    /\ UNCHANGED <<storeVars, selfVars, displayVars, inputVars, hatVars>>
    /\ UNCHANGED <<historyVars, legacy>>

(* ------------------------------------------------------------------ *)
(* Main thread: cleanup and the end of the process                      *)
(* ------------------------------------------------------------------ *)

\* line 206: self._stop.set()
C_Stop ==
    /\ mpc = "cl_stop"
    /\ stop' = TRUE
    /\ mpc' = "cl_clear"
    /\ UNCHANGED <<exc, exitCode, cleanupFrom, m_r, m_c, tick>>
    /\ UNCHANGED <<config, paused, latest, latest_classes, conn, callback>>
    /\ UNCHANGED <<storeVars, displayVars, inputVars, hatVars>>
    /\ UNCHANGED <<historyVars, legacy>>

\* lines 207-210: self.sense.clear()
C_Clear ==
    /\ mpc = "cl_clear"
    /\ screen' = [by |-> "cleanup", text |-> <<"blank">>, colour |-> "none"]
    /\ cleared' = TRUE
    /\ mpc' = "cl_close"
    /\ UNCHANGED <<exc, exitCode, cleanupFrom, m_r, m_c, tick>>
    /\ UNCHANGED <<storeVars, selfVars, displayVars, inputVars>>
    /\ UNCHANGED <<historyVars, legacy>>

\* lines 211-214: self.conn.close()
C_Close ==
    /\ mpc = "cl_close"
    /\ conn' = "closed"
    /\ mpc' = "cl_return"
    /\ UNCHANGED <<exc, exitCode, cleanupFrom, m_r, m_c, tick>>
    /\ UNCHANGED <<config, paused, latest, latest_classes, callback, stop>>
    /\ UNCHANGED <<storeVars, displayVars, inputVars, hatVars>>
    /\ UNCHANGED <<historyVars, legacy>>

\* the status the process ends with once cleanup has returned to `from`
\* with exception e pending: main's handler of KeyboardInterrupt returns
\* and main ends (0); run returned (0); any other exception is uncaught (1)
end_status(from, e) ==
    IF from = "handler" \/ e = "none" THEN 0 ELSE 1

\* cleanup returns.  Out of run's finally with KeyboardInterrupt pending,
\* main's handler (lines 228-230) calls cleanup again; otherwise the
\* process ends, and the daemon threads with it
M_AfterCleanup ==
    /\ mpc = "cl_return"
    /\ IF cleanupFrom = "finally" /\ exc = "KeyboardInterrupt"
       THEN /\ cleanupFrom' = "handler"
            /\ mpc' = "cl_stop"
            /\ UNCHANGED <<exitCode, dpc, ipc>>
       ELSE /\ exitCode' = end_status(cleanupFrom, exc)
            /\ mpc' = "terminated"
            /\ dpc' = IF dpc \in DisplayLive THEN "killed" ELSE dpc
            /\ ipc' = "killed"
            /\ cleanupFrom' = cleanupFrom
    /\ UNCHANGED <<exc, m_r, m_c, tick>>
    /\ UNCHANGED <<idx, d_c, d_r, presses>>
    /\ UNCHANGED <<storeVars, selfVars, hatVars>>
    /\ UNCHANGED <<historyVars, legacy>>

(* ------------------------------------------------------------------ *)
(* Display thread: _display_loop                                        *)
(* ------------------------------------------------------------------ *)

\* _color_for(key, label)
color_for(key, label) ==
    IF key = "orientation"
    THEN IF label = "Aligned" THEN "GREEN" ELSE "AMBER"
    ELSE IF label = "Comfortable" THEN "GREEN"
    ELSE IF label = "High" THEN "RED"
    ELSE IF label = "Low" THEN "BLUE"
    ELSE "WHITE"

\* modes[idx % len(modes)] (sequences start at 1)
mode_at(i) == modes[(i % Len(modes)) + 1]

\* the message of lines 172-179 for mode key and reading r: the prefix and
\* the numbers shown; ".1f" shows the tenths, ".0f" rounds to units
message(key, r) ==
    IF key = "temperature" THEN <<"T", r.temperature>>
    ELSE IF key = "humidity" THEN <<"H", r.humidity>>
    ELSE IF key = "pressure" THEN <<"P", Round1(r.pressure)>>
    ELSE <<"PRY", Round1(r.pitch), Round1(r.roll), Round1(r.yaw)>>

\* D_Check with the stop flag not consulted: while True
D_Check_forever ==
    /\ dpc = "d_check"
    /\ idx < MaxRenders
    /\ dpc' = "d_cond"
    /\ UNCHANGED <<idx, d_c, d_r>>
    /\ UNCHANGED <<storeVars, mainVars, selfVars, inputVars, hatVars>>
    /\ UNCHANGED <<historyVars, legacy>>

\* line 165: while not self._stop.is_set()
D_Check ==
    /\ dpc = "d_check"
    /\ stop \/ idx < MaxRenders
    /\ dpc' = IF stop THEN "done" ELSE "d_cond"
    /\ UNCHANGED <<idx, d_c, d_r>>
    /\ UNCHANGED <<storeVars, mainVars, selfVars, inputVars, hatVars>>
    /\ UNCHANGED <<historyVars, legacy>>

\* D_Cond behind a lock the sampling loop holds from its read to the
\* return of _log
D_Cond_locked ==
    /\ dpc = "d_cond"
    /\ mpc \notin {"run_read", "run_classify", "run_pub_r", "run_pub_c", "run_log"}
    /\ dpc' = IF latest # <<>> /\ latest_classes # <<>> /\ ~paused
              THEN "d_read_c" ELSE "d_sleep"
    /\ UNCHANGED <<idx, d_c, d_r>>
    /\ UNCHANGED <<storeVars, mainVars, selfVars, inputVars, hatVars>>
    /\ UNCHANGED <<historyVars, legacy>>

\* D_Cond with paused not consulted: if self._latest and self._latest_classes
D_Cond_unpaused ==
    /\ dpc = "d_cond"
    /\ dpc' = IF latest # <<>> /\ latest_classes # <<>>
              THEN "d_read_c" ELSE "d_sleep"
    /\ UNCHANGED <<idx, d_c, d_r>>
    /\ UNCHANGED <<storeVars, mainVars, selfVars, inputVars, hatVars>>
    /\ UNCHANGED <<historyVars, legacy>>

\* line 166: if self._latest and self._latest_classes and not self.paused.
\* The three attributes are read one after the other; _latest is stored
\* before _latest_classes and neither goes back to None, so the outcome is
\* the one of reading all three when paused is read.
D_Cond ==
    /\ dpc = "d_cond"
    /\ dpc' = IF latest # <<>> /\ latest_classes # <<>> /\ ~paused
              THEN "d_read_c" ELSE "d_sleep"
    /\ UNCHANGED <<idx, d_c, d_r>>
    /\ UNCHANGED <<storeVars, mainVars, selfVars, inputVars, hatVars>>
    /\ UNCHANGED <<historyVars, legacy>>

\* lines 167-169: key, c = self._latest_classes[key], col
D_ReadClasses ==
    /\ dpc = "d_read_c"
    /\ d_c' = [tick  |-> latest_classes[1].tick,
               label |-> latest_classes[1][mode_at(idx)]]
    /\ dpc' = "d_read_r"
    /\ UNCHANGED <<idx, d_r>>
    /\ UNCHANGED <<storeVars, mainVars, selfVars, inputVars, hatVars>>
    /\ UNCHANGED <<historyVars, legacy>>

\* lines 170-179: r = self._latest, msg
D_ReadReading ==
    /\ dpc = "d_read_r"
    /\ d_r' = latest[1]
    /\ dpc' = "d_show"
    /\ UNCHANGED <<idx, d_c>>
    /\ UNCHANGED <<storeVars, mainVars, selfVars, inputVars, hatVars>>
    /\ UNCHANGED <<historyVars, legacy>>

\* line 181: show_message is entered and starts to scroll the message, or
\* raises; nothing in _display_loop catches, so the thread ends
D_ShowBegin ==
    /\ dpc = "d_show"
    /\ \/ /\ screen' = [by     |-> "display_loop",
                        text   |-> message(mode_at(idx), d_r),
                        colour |-> color_for(mode_at(idx), d_c.label)]
          /\ dpc' = "d_in_show"
       \/ /\ dpc' = "dead"
          /\ screen' = screen
    /\ UNCHANGED <<idx, d_c, d_r, cleared>>
    /\ UNCHANGED <<storeVars, mainVars, selfVars, inputVars>>
    /\ rendered' = IF dpc' = "d_in_show" THEN Append(rendered, screen'.text[1]) ELSE rendered
    /\ UNCHANGED <<published, paused_appends, legacy>>

\* the locals c and r of _display_loop before an iteration assigns them
NoLabel == [tick |-> 0, label |-> "none"]

\* D_ShowEnd with the mode advanced by two: idx += 2
D_ShowEnd_skip ==
    /\ dpc = "d_in_show"
    /\ idx' = idx + 2
    /\ dpc' = "d_sleep"
    /\ d_c' = NoLabel
    /\ d_r' = NoReading
    /\ UNCHANGED <<storeVars, mainVars, selfVars, inputVars, hatVars>>
    /\ UNCHANGED <<historyVars, legacy>>

\* lines 181-183: show_message returns; idx += 1.  c and r are not read
\* again before the next iteration assigns them
D_ShowEnd ==
    /\ dpc = "d_in_show"
    /\ idx' = idx + 1
    /\ dpc' = "d_sleep"
    /\ d_c' = NoLabel
    /\ d_r' = NoReading
    /\ UNCHANGED <<storeVars, mainVars, selfVars, inputVars, hatVars>>
    /\ UNCHANGED <<historyVars, legacy>>

\* line 185: time.sleep returns
D_Sleep ==
    /\ dpc = "d_sleep"
    /\ dpc' = "d_check"
    /\ UNCHANGED <<idx, d_c, d_r>>
    /\ UNCHANGED <<storeVars, mainVars, selfVars, inputVars, hatVars>>
    /\ UNCHANGED <<historyVars, legacy>>

(* ------------------------------------------------------------------ *)
(* Joystick thread: _on_middle_pressed                                  *)
(* ------------------------------------------------------------------ *)

\* the actions of an event of the middle direction
EventActions == {"pressed", "released", "held"}

\* toggle as a set instead of a flip: self.paused = True
toggle_set(p) == TRUE

\* line 103: not self.paused
toggle(p) == ~p

\* lines 101-104: the dispatcher calls the callback with an event; on a
\* pressed event paused is flipped and show_message entered with the
\* acknowledgment
I_Event(action) ==
    /\ ipc = "idle"
    /\ callback
    /\ exitCode = -1
    /\ action = ACTION_PRESSED => presses < MaxPresses
    /\ IF action = ACTION_PRESSED
       THEN /\ paused' = toggle(paused)
            /\ presses' = presses + 1
            /\ screen' = [by     |-> "callback",
                          text   |-> IF toggle(paused) THEN <<"PAUSE">> ELSE <<"RUN">>,
                          colour |-> "WHITE"]
            /\ ipc' = "i_in_show"
       ELSE UNCHANGED <<paused, presses, screen, ipc>>
    /\ UNCHANGED <<config, latest, latest_classes, conn, callback, stop, cleared>>
    /\ UNCHANGED <<storeVars, mainVars, displayVars>>
    /\ paused_appends' = IF action = ACTION_PRESSED THEN 0 ELSE paused_appends
    /\ UNCHANGED <<rendered, published, legacy>>

\* line 104: show_message returns, and the callback with it
I_ShowEnd ==
    /\ ipc = "i_in_show"
    /\ ipc' = "idle"
    /\ presses' = presses
    /\ UNCHANGED <<storeVars, mainVars, selfVars, displayVars, hatVars>>
    /\ UNCHANGED <<historyVars, legacy>>

(* ------------------------------------------------------------------ *)
(* The program                                                          *)
(* ------------------------------------------------------------------ *)

Main ==
    \/ M_SenseHat
    \/ M_LoadConfig
    \/ M_InitState
    \/ M_Connect
    \/ M_Register
    \/ M_StartDisplay
    \/ M_Except
    \/ R_Check
    \/ R_IfPaused
    \/ R_Read
    \/ R_Classify
    \/ R_PublishReading
    \/ R_PublishClasses
    \/ R_Log
    \/ R_Sleep
    \/ C_Stop
    \/ C_Clear
    \/ C_Close
    \/ M_AfterCleanup

Display ==
    \/ D_Check
    \/ D_Cond
    \/ D_ReadClasses
    \/ D_ReadReading
    \/ D_ShowBegin
    \/ D_ShowEnd
    \/ D_Sleep

Input ==
    \/ \E action \in EventActions : I_Event(action)
    \/ I_ShowEnd

Next ==
    \/ Main
    \/ Display
    \/ Input
    \/ Interrupt

Spec == Init /\ [][Next]_vars

(* ------------------------------------------------------------------ *)
(* Construction over the configuration documents under test             *)
(* ------------------------------------------------------------------ *)

\* the file is unreadable, or a document that differs from ValidDoc in at
\* most MaxBadRanges ranges, with or without its orientation section
InitConfig ==
    /\ \/ file = ConfigFile(FALSE, ValidDoc)
       \/ \E S \in SUBSET RangeNames :
             /\ Cardinality(S) <= MaxBadRanges
             /\ \E f \in [S -> RangeChoices] :
                   \/ file = ConfigFile(TRUE, SetRanges(ValidDoc, S, f))
                   \/ file = ConfigFile(TRUE, Without(SetRanges(ValidDoc, S, f), "orientation"))
    /\ table = FALSE
    /\ sensor_logs = <<>>
    /\ InitProcess

NextConfig ==
    \/ M_SenseHat
    \/ M_LoadConfig
    \/ M_Except

SpecConfig == InitConfig /\ [][NextConfig]_vars

\* every thread that can take a step eventually takes one: the threads are
\* scheduled by the operating system, and sleeps and show_message return
FairSpec == Spec /\ WF_vars(Main) /\ WF_vars(Display) /\ WF_vars(I_ShowEnd)

\* the display thread and a show_message of the callback go on whatever
\* the main thread does; no step of the main thread is promised, so a
\* sensor read or a _log that never returns is one of the behaviours
HangSpec == Spec /\ WF_vars(Display) /\ WF_vars(I_ShowEnd)

(* ------------------------------------------------------------------ *)
(* The monitor started on a store an earlier run has left               *)
(* ------------------------------------------------------------------ *)

\* a row an earlier run of the monitor has appended
OldRow ==
    [r |-> read_sensors(sensor_at(2), DefaultTempOffset, 0),
     c |-> classify(read_sensors(sensor_at(2), DefaultTempOffset, 0), ValidDoc)]

\* the valid document; the store is new, or holds the table with a row
InitStore ==
    /\ file = ConfigFile(TRUE, ValidDoc)
    /\ \/ /\ table = FALSE
          /\ sensor_logs = <<>>
       \/ /\ table = TRUE
          /\ sensor_logs = <<OldRow>>
    /\ InitProcess

SpecStore == InitStore /\ [][Next]_vars

(* ------------------------------------------------------------------ *)
(* Classification as a function of the reading and the bounds           *)
(* ------------------------------------------------------------------ *)

\* the readings and bounds under test, in tenths
Values == 0..MaxValue

\* the ranges validation lets through: numbers with min < max
NumRanges == {Rng(Num(p[1]), Num(p[2])) : p \in {q \in Values \X Values : q[1] < q[2]}}

\* a document whose ranges are a and b in turn
ClassifyDoc(a, b) ==
    [temperature |-> a, humidity |-> b, pressure |-> a,
     orientation |-> [pitch |-> b, roll |-> a, yaw |-> b]]

\* the monitor and the older script hold the same reading and the same
\* validated document, and each is about to classify
InitClassify ==
    /\ \E a \in NumRanges, b \in NumRanges :
          /\ file = ConfigFile(TRUE, ClassifyDoc(a, b))
          /\ config = <<ClassifyDoc(a, b)>>
    /\ \E t \in Values, h \in Values, p \in Values, pi \in Values, ro \in Values, ya \in Values :
          m_r = [tick |-> 1, temperature |-> t, humidity |-> h, pressure |-> p,
                 pitch |-> pi, roll |-> ro, yaw |-> ya]
    /\ table = TRUE
    /\ sensor_logs = <<>>
    /\ mpc = "run_classify"
    /\ exc = "none"
    /\ exitCode = -1
    /\ cleanupFrom = "none"
    /\ m_c = classify(NoReading, ValidDoc)
    /\ tick = 1
    /\ paused = FALSE
    /\ latest = <<>>
    /\ latest_classes = <<>>
    /\ conn = "open"
    /\ callback = TRUE
    /\ stop = FALSE
    /\ dpc = "d_check"
    /\ idx = 0
    /\ d_c = [tick |-> 0, label |-> "none"]
    /\ d_r = NoReading
    /\ ipc = "idle"
    /\ presses = 0
    /\ screen = [by |-> "none", text |-> <<"none">>, colour |-> "none"]
    /\ cleared = FALSE
    /\ rendered = <<>>
    /\ published = 0
    /\ paused_appends = 0
    /\ legacy = [temperature |-> "none", humidity |-> "none", pressure |-> "none"]

\* src/SensorMonitor.py lines 99-101: temp_class, humidity_class and
\* pressure_class of the older script's loop
L_Classify ==
    /\ legacy.temperature = "none"
    /\ config # <<>>
    /\ LET cfg == config[1]
       IN  legacy' = [temperature |-> classify_temperature(m_r.temperature, cfg.temperature.min, cfg.temperature.max),
                      humidity    |-> classify_humidity(m_r.humidity, cfg.humidity.min, cfg.humidity.max),
                      pressure    |-> classify_pressure(m_r.pressure, cfg.pressure.min, cfg.pressure.max)]
    /\ UNCHANGED <<storeVars, mainVars, selfVars, displayVars, inputVars, hatVars, historyVars>>

NextClassify ==
    \/ R_Classify
    \/ L_Classify

SpecClassify == InitClassify /\ [][NextClassify]_vars

(* ------------------------------------------------------------------ *)
(* Properties                                                           *)
(* ------------------------------------------------------------------ *)

\* the display thread holds both the label and the reading of the message
\* it is about to show or is showing
DisplayHoldsPair == dpc \in {"d_show", "d_in_show"}

\* C1: the label (colour) and the reading (text) of one rendered message
\* come from the same sampling tick.
C1_PairFromOneTick == DisplayHoldsPair => d_c.tick = d_r.tick

\* C2: after _log has failed in a tick the sampling loop keeps running, so
\* that the next tick can sample, publish and append.
C2_LoopSurvivesLogFailure == exc = "sqlite3.Error" => mpc \in RunPcs

\* C3: a tick whose pause check sees paused = TRUE goes straight to the
\* sleep without a sensor read, a publish or an append, and the sleep is
\* followed by the next check of the loop condition.
C3_PausedTickSkips ==
    [][/\ (mpc = "run_if" /\ paused /\ mpc' # mpc /\ exc' = exc)
          => /\ mpc' = "run_sleep"
             /\ UNCHANGED <<tick, m_r, m_c, latest, latest_classes, sensor_logs>>
       /\ (mpc = "run_sleep" /\ mpc' # mpc /\ exc' = exc)
          => mpc' = "run_check"]_vars

\* C3 witness: the loop is in its sleep, paused, with no sensor read so far:
\* it came through the pause check with paused = TRUE.
C3_Witness == mpc = "run_sleep" /\ paused /\ tick = 0 /\ latest = <<>> /\ sensor_logs = <<>>

\* C4: after N pressed events (and any released or held ones), paused is
\* TRUE iff N is odd.
C4_PausedIffOddPresses == paused <=> (presses % 2 = 1)

\* C4 witness: two presses delivered while the loops run; paused is FALSE again.
C4_Witness == presses = 2 /\ ~paused /\ tick > 0 /\ dpc \in DisplayLive

\* the display thread has ended: it left its loop, died of an exception, or
\* was ended with the process
DisplayEnded == dpc \in {"done", "dead", "killed"}

\* C5: once the stop flag is set the sampling loop is no longer in its
\* loop, the display loop starts no tick body at its next check of the
\* flag, and the display thread eventually ends.
C5_StopEndsLoops ==
    /\ [](stop => mpc \notin RunPcs)
    /\ [][(stop /\ dpc = "d_check" /\ dpc' # dpc) => dpc' \in {"done", "killed"}]_vars
    /\ (stop ~> DisplayEnded)

\* C5 witness: the display loop saw the flag at its check and left, before
\* the process ended.
C5_Witness == stop /\ dpc = "done" /\ exitCode = -1

\* C6: shutdown requests stop, then the display loop has ended, then the
\* display is cleared, then the connection is closed; the display loop
\* never writes the display after shutdown cleared it.
C6_OrderlyShutdown ==
    /\ cleared => stop
    /\ cleared => dpc \notin DisplayLive
    /\ cleared => screen.by # "display_loop"
    /\ conn = "closed" => cleared

\* the rows of the log and the published pair hold nothing of tick t
NothingOfTick(t) ==
    /\ latest # <<>> => latest[1].tick # t
    /\ latest_classes # <<>> => latest_classes[1].tick # t
    /\ \A i \in 1..Len(sensor_logs) : sensor_logs[i].r.tick # t

\* C7: after a failed sensor read the loop is left for good, the read is
\* not made again, nothing of that tick is published or appended, and the
\* process goes through cleanup (stop set) to an end with the error.
C7_SensorFailureFatal ==
    exc = "SensorError" =>
        /\ mpc \in {"cl_stop", "cl_clear", "cl_close", "cl_return", "terminated"}
        /\ m_r.tick # tick
        /\ NothingOfTick(tick)
        /\ mpc \in {"cl_clear", "cl_close", "cl_return", "terminated"} => stop
        /\ mpc = "terminated" => exitCode # 0

\* C7 witness: the second tick's read failed after a first tick was logged,
\* and the process has ended.
C7_Witness ==
    exc = "SensorError" /\ mpc = "terminated" /\ tick = 2 /\ Len(sensor_logs) = 1

\* C6 witness: the display loop has written the display after cleanup
\* cleared it.
C6_RenderAfterClear == cleared /\ screen.by = "display_loop"

\* the range name of document doc is missing, lacks min or max, has a min
\* or max that is not a number, or has min >= max
BadRange(doc, name) ==
    LET holder == IF name \in EnvNames THEN doc
                  ELSE IF Has(doc, "orientation") THEN doc.orientation
                  ELSE [other |-> Null]
    IN  \/ ~Has(holder, name)
        \/ ~Has(holder[name], "min")
        \/ ~Has(holder[name], "max")
        \/ ~IsNumber(holder[name].min)
        \/ ~IsNumber(holder[name].max)
        \/ holder[name].min[2] >= holder[name].max[2]

\* _load_and_validate_config has returned or raised
LoadDone == mpc \in {"init_state", "except", "terminated"} /\ exc # "OSError"

\* C8: for a readable document, validation raises ConfigError whenever one
\* of the six ranges is bad, whatever the other five are, and returns the
\* configuration only when none is.
C8_ValidationExhaustive ==
    (LoadDone /\ file.readable) =>
        /\ (\E name \in RangeNames : BadRange(file.doc, name)) => exc = "ConfigError"
        /\ (config # <<>>) => (\A name \in RangeNames : ~BadRange(file.doc, name))

\* C8 witness: validation returned a document in which an orientation axis
\* has bounds that are not numbers.
C8_BadRangeAccepted ==
    /\ mpc = "init_state"
    /\ config # <<>>
    /\ \E a \in AxisNames : BadRange(file.doc, a)

\* loading or validating the configuration raised
LoadFailed == config = <<>> /\ exc \in {"ConfigError", "TypeError"}

\* C9: when loading or validating the configuration fails, no connection
\* is opened and no table created, no callback is registered, the display
\* thread is not started, and nothing is sampled, published or logged.
C9_NoStartOnConfigFailure ==
    LoadFailed =>
        /\ mpc \in {"except", "terminated"}
        /\ conn = "none"
        /\ ~table
        /\ ~callback
        /\ dpc = "unstarted"
        /\ tick = 0
        /\ latest = <<>> /\ latest_classes = <<>>
        /\ sensor_logs = <<>>

\* C9 witness: the process has ended on a configuration error.
C9_Witness == LoadFailed /\ mpc = "terminated" /\ exc = "ConfigError"

\* construction raised (main's first try block)
ConstructionFailed == exitCode # -1 /\ cleanupFrom = "none"

\* C10: the process ends with status 2 when construction raised
\* ConfigError, 1 when it raised another error, and 0 when the running
\* monitor was stopped by the interrupt signal.
C10_ExitCodes ==
    /\ (ConstructionFailed /\ exc = "ConfigError") => exitCode = 2
    /\ (ConstructionFailed /\ exc # "ConfigError") => exitCode = 1
    /\ (exitCode # -1 /\ exc = "KeyboardInterrupt") => exitCode = 0

\* C10 witness: the process has ended on a configuration error with a
\* status other than 2.
C10_ConfigErrorStatus == ConstructionFailed /\ exc = "ConfigError" /\ exitCode # 2

\* _classify has returned the labels of the reading m_r
ClassifyDone == mpc = "run_pub_r"

\* the older script has classified the same reading
LegacyDone == legacy.temperature # "none"

\* C11: for every value v and bounds lo, hi, _bucket returns Low iff
\* v < lo, High iff v > hi and Comfortable otherwise (so also at v = lo and
\* v = hi), and classify_temperature, classify_humidity and
\* classify_pressure of the older script return the same label as _bucket
\* for the same value and bounds.
C11_BucketLabels ==
    ClassifyDone =>
        \A name \in EnvNames :
            LET v  == m_r[name]
                lo == config[1][name].min[2]
                hi == config[1][name].max[2]
            IN  /\ m_c[name] = "Low" <=> v < lo
                /\ m_c[name] = "High" <=> v > hi
                /\ m_c[name] = "Comfortable" <=> (~(v < lo) /\ ~(v > hi))
                /\ LegacyDone => legacy[name] = m_c[name]

\* both programs have classified a reading whose temperature is on the
\* lower bound, whose humidity is on the upper bound and whose pressure is
\* above the upper bound
C11_Witness ==
    /\ ClassifyDone
    /\ LegacyDone
    /\ m_r.temperature = config[1].temperature.min[2]
    /\ m_r.humidity = config[1].humidity.max[2]
    /\ m_r.pressure > config[1].pressure.max[2]
    /\ m_c.temperature = "Comfortable"
    /\ m_c.humidity = "Comfortable"
    /\ m_c.pressure = "High"

\* the axis of reading r lies within its inclusive range of document cfg
InRange(r, cfg, axis) ==
    /\ cfg.orientation[axis].min[2] <= r[axis]
    /\ r[axis] <= cfg.orientation[axis].max[2]

\* C12: for every reading and every orientation configuration, _classify
\* reports Aligned iff pitch, roll and yaw each lie within their own
\* inclusive range, and Tilted as soon as one axis lies outside.
C12_AlignedIffAllInRange ==
    ClassifyDone =>
        /\ m_c.orientation = "Aligned" <=> \A axis \in AxisNames : InRange(m_r, config[1], axis)
        /\ m_c.orientation = "Tilted" <=> \E axis \in AxisNames : ~InRange(m_r, config[1], axis)

\* a reading with pitch and roll on bounds of their ranges and only yaw
\* outside has been classified Tilted
C12_Witness ==
    /\ ClassifyDone
    /\ m_r.pitch = config[1].orientation.pitch.min[2]
    /\ m_r.roll = config[1].orientation.roll.max[2]
    /\ ~InRange(m_r, config[1], "yaw")
    /\ m_c.orientation = "Tilted"

\* the prefix of the message of a mode (lines 172-179)
PrefixOf(key) ==
    IF key = "temperature" THEN "T"
    ELSE IF key = "humidity" THEN "H"
    ELSE IF key = "pressure" THEN "P"
    ELSE "PRY"

\* the modes in the order of the rotation
RotationOrder == <<"temperature", "humidity", "pressure", "orientation">>

\* C13: the k-th message the display loop renders (k from 0) shows mode
\* k mod 4 of temperature, humidity, pressure, orientation; no mode is
\* skipped or shown out of order.
C13_RotationOrder ==
    \A k \in 0..(Len(rendered) - 1) :
        rendered[k + 1] = PrefixOf(RotationOrder[(k % 4) + 1])

\* the display loop has rendered a fifth message, the temperature again
C13_Witness ==
    /\ Len(rendered) = 5
    /\ rendered[4] = "PRY"
    /\ rendered[5] = "T"

\* the display thread takes a step of _display_loop
DisplayStep == dpc' # dpc /\ dpc' # "killed"

\* what a step of the display thread does to a tick of _display_loop,
\* according to C14
C14_Tick ==
    /\ (DisplayStep /\ dpc = "d_cond") =>
          IF paused \/ published = 0
          THEN /\ dpc' = "d_sleep"
               /\ idx' = idx
               /\ rendered' = rendered
               /\ screen' = screen
          ELSE dpc' = "d_read_c"
    /\ (DisplayStep /\ dpc = "d_read_c") =>
          /\ dpc' = "d_read_r"
          /\ d_c'.label = latest_classes[1][RotationOrder[(idx % 4) + 1]]
    /\ (DisplayStep /\ dpc = "d_read_r") => (dpc' = "d_show" /\ d_r' = latest[1])
    /\ (DisplayStep /\ dpc = "d_show" /\ dpc' # "dead") =>
          /\ dpc' = "d_in_show"
          /\ rendered' = Append(rendered, PrefixOf(RotationOrder[(idx % 4) + 1]))
          /\ screen'.by = "display_loop"
          /\ screen'.text = message(RotationOrder[(idx % 4) + 1], d_r)
          /\ screen'.colour = color_for(RotationOrder[(idx % 4) + 1], d_c.label)
    /\ (DisplayStep /\ dpc = "d_in_show") => (dpc' = "d_sleep" /\ idx' = idx + 1)
    /\ rendered' # rendered => (DisplayStep /\ dpc = "d_show")
    /\ idx' # idx => (DisplayStep /\ dpc = "d_in_show")
    /\ (DisplayStep /\ dpc = "d_sleep") => dpc' = "d_check"

C15_RenderFailureSwallowed == dpc # "dead"

\* the display thread has ended on a failure of show_message while the
\* sampling loop runs on and has appended its second row
C15_DisplayDeadSamplingLive ==
    /\ dpc = "dead"
    /\ mpc \in RunPcs
    /\ exc = "none"
    /\ Len(sensor_logs) = 2

\* the rows of seq a are the first rows of seq b, unchanged
IsPrefix(a, b) ==
    /\ Len(a) <= Len(b)
    /\ \A i \in 1..Len(a) : b[i] = a[i]

\* what a step does to the log, according to C16
C16_Step ==
    /\ IsPrefix(sensor_logs, sensor_logs')
    /\ Len(sensor_logs') <= Len(sensor_logs) + 1
    /\ (mpc = "run_log" /\ mpc' = "run_sleep") =>
          sensor_logs' = Append(sensor_logs, [r |-> m_r, c |-> m_c])
    /\ sensor_logs' # sensor_logs => (mpc = "run_log" /\ mpc' = "run_sleep")
    /\ (mpc = "run_if" /\ mpc' = "run_sleep") => sensor_logs' = sensor_logs
    /\ paused' # paused => sensor_logs' = sensor_logs
    /\ (mpc = "connect" /\ mpc' = "register" /\ table) =>
          (table' /\ sensor_logs' = sensor_logs)

\* C16: the log is append-only across ticks, pause toggles and schema
\* initialisations: each successful unpaused tick appends exactly one
\* record at the end, no step changes or removes an existing record, and
\* _init_db against a store that already holds the table leaves its
\* records unchanged.
C16_AppendOnly == [][C16_Step]_vars

\* the monitor was started on a store with a row, the pause was toggled,
\* and two ticks have appended their rows after the old one
C16_Witness ==
    /\ Len(sensor_logs) = 3
    /\ sensor_logs[1] = OldRow
    /\ sensor_logs[2].r.tick = 1
    /\ sensor_logs[3].r.tick = 2
    /\ presses = 2

\* C17: the display write of the joystick callback and the display write
\* of the display loop are mutually exclusive: in no reachable state are
\* both inside show_message.
C17_ShowMessageExclusive == ~(ipc = "i_in_show" /\ dpc = "d_in_show")

\* the callback has entered show_message with its acknowledgment while
\* the display loop is inside show_message with a reading
C17_BothInShowMessage ==
    /\ ipc = "i_in_show"
    /\ dpc = "d_in_show"
    /\ screen.by = "callback"
    /\ rendered # <<>>

\* the pcs of the main thread between the pause check of a tick and the
\* return of its _log
TickPcs == {"run_read", "run_classify", "run_pub_r", "run_pub_c", "run_log"}

\* C18: after a press has set paused, the sampling loop appends at most
\* one more record, that of a tick which was already past its pause
\* check, for as long as paused stays set: once that record is appended
\* no tick is under way any more.
C18_AtMostOneAppendOncePaused ==
    paused =>
        /\ paused_appends <= 1
        /\ paused_appends = 1 => mpc \notin TickPcs

\* the monitor was paused while a tick was under way, the tick has
\* appended its row, and the loop is at its next pause check
C18_Witness ==
    /\ paused
    /\ paused_appends = 1
    /\ mpc = "run_if"
    /\ tick < MaxTicks

\* the main thread is inside _read_sensors or inside _log
InBlockingCall == mpc \in {"run_read", "run_log"}

\* the display loop runs, may render, and has something to render
CanRender ==
    /\ dpc \in DisplayLive
    /\ idx < MaxRenders
    /\ published > 0
    /\ ~paused

\* C19: a sensor read or a log append that never returns does not stall
\* the display loop: while the main thread stays in the call, the display
\* loop (unpaused, a reading published, show_message not failing) renders
\* again and again, and a press still toggles paused.
C19_DisplayRendersWhileSamplingHangs ==
    /\ (InBlockingCall /\ CanRender) ~>
          (dpc = "d_in_show" \/ ~InBlockingCall \/ paused \/ dpc = "dead")
    /\ [][(InBlockingCall /\ presses' = presses + 1) =>
             (paused' = ~paused /\ mpc' = mpc)]_vars

\* with the main thread inside the _log of its first tick all along, the
\* display loop has rendered twice and two presses have paused and
\* resumed the monitor
C19_Witness ==
    /\ mpc = "run_log"
    /\ tick = 1
    /\ idx = 2
    /\ presses = 2
    /\ ~paused
    /\ screen.text = <<"RUN">>

\* C20: within each unpaused tick the reading is published before it is
\* appended, and the appended record holds exactly the reading and the
\* labels published in that tick; hence in every reachable state the
\* number of appended records is the number of publishes or one less.
C20_PublishThenAppend ==
    /\ [](Len(sensor_logs) \in {published, published - 1})
    /\ [][sensor_logs' # sensor_logs =>
            /\ Len(sensor_logs) = published - 1
            /\ latest # <<>> /\ latest_classes # <<>>
            /\ latest[1].tick = tick /\ latest_classes[1].tick = tick
            /\ sensor_logs' = Append(sensor_logs, [r |-> latest[1], c |-> latest_classes[1]])]_vars

\* the second tick has published its reading and labels and is inside
\* _log: one row appended, two publishes
C20_Witness ==
    /\ mpc = "run_log"
    /\ published = 2
    /\ Len(sensor_logs) = 1
    /\ latest[1].tick = 2
    /\ sensor_logs[1].r.tick = 1

====
